---- MODULE Spec2Model ----
(***************************************************************************)
(* State-machine model of prepare_mimic_cxr.py: the label-line parser, the *)
(* record builder step, and the Apache Beam pipeline that joins Image      *)
(* Records with Label Records, partitions the groups by view and fans out  *)
(* to the tabular (BigQuery), blob (JPG) and shard (TFRecord) sinks.       *)
(*                                                                         *)
(* Representation choices:                                                 *)
(*  - a path string is the record of the segments its grammar captures,    *)
(*    [split, patient, study, image, view]; split and view are the raw     *)
(*    directory texts, ids hold their enumeration codes;                   *)
(*  - a label line is the row csv.reader yields for it: a sequence         *)
(*    <<path, view text, field, field, ...>>;                              *)
(*  - image bytes are [data, shape]: the raw bytes and the shape they were *)
(*    resized to (0 when they were never resized);                         *)
(*  - a PCollection is an unordered bag: a set of elements, each tagged    *)
(*    with its rank of arrival among the elements of its key, which is the *)
(*    order CoGroupByKey lists the values of a key in;                     *)
(*  - an exception raised by a transform is not caught anywhere in the     *)
(*    program: it ends the run (pc = "failed") and nothing runs after it;  *)
(*  - a Python call returns a record whose field "type" is "ok" or the     *)
(*    name of the exception it raises.                                     *)
(***************************************************************************)
EXTENDS Integers, Sequences, FiniteSets, TLC

VARIABLES
  via,        \* "main" or "direct": how build_and_run_pipeline is reached
  cfg,        \* the arguments of build_and_run_pipeline
  csv_lines,  \* the label lines of input_csv after the header (a set of rows)
  tar_entries,\* the entries of the matched archives: [path, data]
  pc,         \* "start", "build", "running", "joined", "done", or a failure
  error,      \* the exception that ended the run, or NoError
  pending_lines, \* label lines not yet read
  pending_tars,  \* archive entries not yet read
  rows,       \* PCollection rows: Label Records [ids, labels, n], n the
              \* record's rank of arrival among the records of its key
  rows_bq,    \* elements of rows not yet taken by the to_bigquery_json branch
  jpgs,       \* PCollection jpgs: Image Records [ids, jpg_bytes, n]
  jpgs_out,   \* elements of jpgs not yet taken by the write_jpg branch
  partitions, \* the output of 'Partition on view': index -> set of groups
  todo,       \* index -> groups of a target partition not yet built
  bq_sink,    \* the rows handed to WriteToBigQuery: [n, row], n the rank of
              \* the Label Record the row was made from
  jpg_sink,   \* the files write_jpg wrote: [n, file], n the rank of the
              \* Image Record written
  tf_sink,    \* shard name -> the examples handed to WriteToTFRecord
  fn_in,      \* the input of the pure function under test
  fn_out      \* its result, or NotRun

vars == <<via, cfg, csv_lines, tar_entries, pc, error, pending_lines,
          pending_tars, rows, rows_bq, jpgs, jpgs_out, partitions, todo,
          bq_sink, jpg_sink, tf_sink, fn_in, fn_out>>

-----------------------------------------------------------------------------
(* Bounds of the model *)

\* the most archive entries a run reads
MaxTarEntries == 2
\* the most label lines a run reads
MaxCsvLines == 2
\* the most label fields of a row handed to parse_csv_row on its own
MaxFields == 2
\* the most records on either side of a group handed to to_tf_example
MaxGroupSide == 2

-----------------------------------------------------------------------------
(* enum_encodings and mimic_cxr_tfrecord_schema *)

VIEW_VALUES == [frontal |-> 0, lateral |-> 1, other |-> 2]

DATASET_VALUES == [train |-> 0, valid |-> 1]

LABEL_VALUES == [not_mentioned |-> 0, negative |-> 1, uncertain |-> 2,
                 positive |-> 3]

LABEL_NAMES == <<"No Finding", "Enlarged Cardiomediastinum", "Cardiomegaly",
                 "Airspace Opacity", "Lung Lesion", "Edema", "Consolidation",
                 "Pneumonia", "Atelectasis", "Pneumothorax",
                 "Pleural Effusion", "Pleural Other", "Fracture",
                 "Support Devices">>

ID_NAMES == {"dataset", "patient", "study", "image", "view"}

NoIds == [dataset |-> -1, patient |-> -1, study |-> -1, image |-> -1,
          view |-> -1]

\* path_to_ids: the segments of the path, split and view as enumeration codes
path_to_ids(path) ==
  IF /\ path.split \in DOMAIN DATASET_VALUES
     /\ path.view \in DOMAIN VIEW_VALUES
     /\ path.patient >= 0 /\ path.study >= 0 /\ path.image >= 0
  THEN [type |-> "ok",
        ids |-> [dataset |-> DATASET_VALUES[path.split],
                 patient |-> path.patient, study |-> path.study,
                 image |-> path.image, view |-> VIEW_VALUES[path.view]]]
  ELSE [type |-> "MalformedPathError", ids |-> NoIds]

\* ids_to_path: the canonical path, the view text re-rendered from its code
ids_to_path(ids) ==
  [split |-> CHOOSE s \in DOMAIN DATASET_VALUES :
                DATASET_VALUES[s] = ids.dataset,
   patient |-> ids.patient, study |-> ids.study, image |-> ids.image,
   view |-> CHOOSE v \in DOMAIN VIEW_VALUES : VIEW_VALUES[v] = ids.view]

Min(a, b) == IF a <= b THEN a ELSE b

\* build_features: the feature map of one training record
build_features(jpg_bytes, ids, labels) ==
  IF jpg_bytes.data = "" \/ Len(labels) # Len(LABEL_NAMES)
  THEN [type |-> "RecordBuildError", jpg_bytes |-> jpg_bytes, ids |-> ids,
        labels |-> labels]
  ELSE [type |-> "ok", jpg_bytes |-> jpg_bytes, ids |-> ids,
        labels |-> labels]

-----------------------------------------------------------------------------
(* ChexpertConverter *)

chexpert_code_to_index ==
  [s \in {"", "1.0", "-1.0", "0.0"} |->
     CASE s = "" -> LABEL_VALUES["not_mentioned"]
       [] s = "1.0" -> LABEL_VALUES["positive"]
       [] s = "-1.0" -> LABEL_VALUES["uncertain"]
       [] s = "0.0" -> LABEL_VALUES["negative"]]

\* a converter that coerces an unknown code to not_mentioned
convert_default(s) ==
  IF s \in DOMAIN chexpert_code_to_index
  THEN [type |-> "ok", code |-> chexpert_code_to_index[s], arg |-> s]
  ELSE [type |-> "ok", code |-> LABEL_VALUES["not_mentioned"], arg |-> s]

convert(s) ==
  IF s \in DOMAIN chexpert_code_to_index
  THEN [type |-> "ok", code |-> chexpert_code_to_index[s], arg |-> s]
  ELSE [type |-> "ValueError", code |-> -1, arg |-> s]

-----------------------------------------------------------------------------
(* parse_csv_row, to_bigquery_json, write_jpg, to_tf_example *)

\* the fields of row[2:], as Python slices them
LabelFields(row) == IF Len(row) <= 2 THEN <<>> ELSE SubSeq(row, 3, Len(row))

\* the first field of fs that convert rejects, 0 when there is none
FirstBad(fs) ==
  IF \E i \in 1..Len(fs) : convert(fs[i]).type # "ok"
  THEN CHOOSE i \in 1..Len(fs) :
         /\ convert(fs[i]).type # "ok"
         /\ \A j \in 1..(i - 1) : convert(fs[j]).type = "ok"
  ELSE 0

parse_csv_row(row) ==
  IF Len(row) = 0
  THEN [type |-> "IndexError", ids |-> NoIds, labels |-> <<>>, arg |-> ""]
  ELSE IF path_to_ids(row[1]).type # "ok"
  THEN [type |-> path_to_ids(row[1]).type, ids |-> NoIds, labels |-> <<>>,
        arg |-> ""]
  ELSE LET fs == LabelFields(row)
           bad == FirstBad(fs)
       IN IF bad # 0
          THEN [type |-> "ValueError", ids |-> NoIds, labels |-> <<>>,
                arg |-> fs[bad]]
          ELSE [type |-> "ok", ids |-> path_to_ids(row[1]).ids,
                labels |-> [i \in 1..Len(fs) |-> convert(fs[i]).code],
                arg |-> ""]

\* a row that carries the label columns and the path but not the key fields
to_bigquery_json_labels_only(ids_row) ==
  LET n == Min(Len(LABEL_NAMES), Len(ids_row.labels))
  IN [labels |-> [c \in {LABEL_NAMES[i] : i \in 1..n} |->
                    ids_row.labels[CHOOSE i \in 1..n : LABEL_NAMES[i] = c]],
      ids |-> NoIds,
      path |-> ids_to_path(ids_row.ids)]

\* zip(LABEL_NAMES, row) stops at the shorter of the two
to_bigquery_json(ids_row) ==
  LET n == Min(Len(LABEL_NAMES), Len(ids_row.labels))
  IN [labels |-> [c \in {LABEL_NAMES[i] : i \in 1..n} |->
                    ids_row.labels[CHOOSE i \in 1..n : LABEL_NAMES[i] = c]],
      ids |-> ids_row.ids,
      path |-> ids_to_path(ids_row.ids)]

\* the file write_jpg writes: its path under output_jpg_dir and its bytes
write_jpg(element) ==
  [path |-> ids_to_path(element.ids), bytes |-> element.jpg_bytes]

NoBytes == [data |-> "", shape |-> 0]

\* a builder that pairs the first image with the first row whenever both exist
to_tf_example_first(element) ==
  IF Len(element.join.jpgs) = 0 \/ Len(element.join.rows) = 0
  THEN [type |-> "ValueError",
        counts |-> <<Len(element.join.jpgs), Len(element.join.rows)>>,
        path |-> ids_to_path(element.ids),
        jpg_bytes |-> NoBytes, ids |-> element.ids, labels |-> <<>>]
  ELSE LET f == build_features(element.join.jpgs[1], element.ids,
                               element.join.rows[1])
       IN [type |-> f.type, counts |-> <<1, 1>>,
           path |-> ids_to_path(element.ids),
           jpg_bytes |-> f.jpg_bytes, ids |-> f.ids, labels |-> f.labels]

\* a builder that reports the two counts in the order (rows, jpgs)
to_tf_example_swapped(element) ==
  IF Len(element.join.jpgs) # 1 \/ Len(element.join.rows) # 1
  THEN [type |-> "ValueError",
        counts |-> <<Len(element.join.rows), Len(element.join.jpgs)>>,
        path |-> ids_to_path(element.ids),
        jpg_bytes |-> NoBytes, ids |-> element.ids, labels |-> <<>>]
  ELSE LET f == build_features(element.join.jpgs[1], element.ids,
                               element.join.rows[1])
       IN [type |-> f.type, counts |-> <<1, 1>>,
           path |-> ids_to_path(element.ids),
           jpg_bytes |-> f.jpg_bytes, ids |-> f.ids, labels |-> f.labels]

to_tf_example(element) ==
  IF Len(element.join.jpgs) # 1 \/ Len(element.join.rows) # 1
  THEN [type |-> "ValueError",
        counts |-> <<Len(element.join.jpgs), Len(element.join.rows)>>,
        path |-> ids_to_path(element.ids),
        jpg_bytes |-> NoBytes, ids |-> element.ids, labels |-> <<>>]
  ELSE LET f == build_features(element.join.jpgs[1], element.ids,
                               element.join.rows[1])
       IN [type |-> f.type, counts |-> <<1, 1>>,
           path |-> ids_to_path(element.ids),
           jpg_bytes |-> f.jpg_bytes, ids |-> f.ids, labels |-> f.labels]

-----------------------------------------------------------------------------
(* ReadTarFile and ResizeImage *)

\* ResizeImage('jpg', *output_image_shape): height and width are required,
\* the channel count is optional
ResizeImage_init(shape) ==
  IF Len(shape) \in {2, 3} THEN "ok" ELSE "TypeError"

\* ResizeImage.process: the bytes re-encoded at the target shape
ResizeImage(jpg_bytes, shape) == [data |-> jpg_bytes.data, shape |-> Len(shape)]

\* ReadTarFile(path_to_ids) on one archive entry, then the optional resize
ReadTarFile(entry, c) ==
  LET r == path_to_ids(entry.path)
      raw == [data |-> entry.data, shape |-> 0]
  IN [type |-> r.type, ids |-> r.ids,
      jpg_bytes |-> IF c.output_image_shape.given
                    THEN ResizeImage(raw, c.output_image_shape.dims)
                    ELSE raw]

-----------------------------------------------------------------------------
(* build_and_run_pipeline *)

NoPath == [split |-> "", patient |-> -1, study |-> -1, image |-> -1,
           view |-> ""]

NoError == [type |-> "none", stage |-> "", path |-> NoPath,
            counts |-> <<0, 0>>, arg |-> ""]

Failure(type, stage, path, counts, arg) ==
  [type |-> type, stage |-> stage, path |-> path, counts |-> counts,
   arg |-> arg]

KeysOf(S) == {x.ids : x \in S}

\* the rank of arrival the next record of key ids gets in collection S
NextRank(S, ids) == Cardinality({x \in S : x.ids = ids}) + 1

\* field of the elements of S whose key is ids, in their order of arrival
ValuesOf(S, ids, field) ==
  [i \in 1..Cardinality({x \in S : x.ids = ids}) |->
     (CHOOSE x \in S : x.ids = ids /\ x.n = i)[field]]

\* a join that keeps the first record of each key and stream
CoGroupByKey_dedup(js, rs) ==
  {[ids |-> k,
    join |-> [jpgs |-> IF ValuesOf(js, k, "jpg_bytes") = <<>> THEN <<>>
                       ELSE <<Head(ValuesOf(js, k, "jpg_bytes"))>>,
              rows |-> IF ValuesOf(rs, k, "labels") = <<>> THEN <<>>
                       ELSE <<Head(ValuesOf(rs, k, "labels"))>>]] :
     k \in KeysOf(js) \cup KeysOf(rs)}

\* {'jpgs': jpgs, 'rows': rows} | CoGroupByKey(): one group per key that
\* occurs in either collection, each side in arrival order
CoGroupByKey(js, rs) ==
  {[ids |-> k,
    join |-> [jpgs |-> ValuesOf(js, k, "jpg_bytes"),
              rows |-> ValuesOf(rs, k, "labels")]] :
     k \in KeysOf(js) \cup KeysOf(rs)}

\* the number of streams 'Partition on view' declares
NPartitions == Cardinality(DOMAIN VIEW_VALUES)

\* a partition function that sends every group to the first stream
PartitionFn_first(kv) == 0

\* lambda kv, n_split: kv[0][ID_NAMES['view']]
PartitionFn(kv) == kv.ids.view

Partition(groups) ==
  [i \in 0..(NPartitions - 1) |-> {g \in groups : PartitionFn(g) = i}]

\* frontal, lateral, _ = ...: the streams that feed a shard set, by name
TargetIndex == [frontal |-> 0, lateral |-> 1]

\* only the frontal partition is built
TargetsToBuild_frontal(c, parts) ==
  [name \in DOMAIN TargetIndex |->
     IF c.output_tfrecord_dir /\ name = "frontal"
     THEN parts[TargetIndex[name]] ELSE {}]

\* the partition of view other is built too, into the frontal shard set
TargetsToBuild_other(c, parts) ==
  [name \in DOMAIN TargetIndex |->
     IF c.output_tfrecord_dir
     THEN parts[TargetIndex[name]]
            \cup (IF name = "frontal" THEN parts[VIEW_VALUES["other"]] ELSE {})
     ELSE {}]

\* the groups the shard branch is to build, by shard name
TargetsToBuild(c, parts) ==
  [name \in DOMAIN TargetIndex |->
     IF c.output_tfrecord_dir THEN parts[TargetIndex[name]] ELSE {}]

EmptyParts == [i \in 0..(NPartitions - 1) |-> {}]
EmptyTodo == [name \in DOMAIN TargetIndex |-> {}]
EmptyShards == [name \in DOMAIN TargetIndex |-> {}]

JoinNeeded(c) == c.output_jpg_dir \/ c.output_tfrecord_dir

\* a main() that hands any shape on to build_and_run_pipeline
Main_nocheck ==
  /\ pc = "start"
  /\ pc' = "build"
  /\ UNCHANGED <<via, cfg, csv_lines, tar_entries, error, pending_lines,
                 pending_tars, rows, rows_bq, jpgs, jpgs_out, partitions,
                 todo, bq_sink, jpg_sink, tf_sink, fn_in, fn_out>>

\* main(): parser.error leaves the program before the pipeline is built
Main ==
  /\ pc = "start"
  /\ IF /\ cfg.output_image_shape.given
        /\ Len(cfg.output_image_shape.dims) \notin {2, 3}
     THEN /\ pc' = "exit"
          /\ error' = Failure("SystemExit", "main", NoPath, <<0, 0>>, "")
     ELSE /\ pc' = "build"
          /\ error' = error
  /\ UNCHANGED <<via, cfg, csv_lines, tar_entries, pending_lines,
                 pending_tars, rows, rows_bq, jpgs, jpgs_out, partitions,
                 todo, bq_sink, jpg_sink, tf_sink, fn_in, fn_out>>

\* the glob of input_tars and the construction of the pipeline graph
BuildPipeline ==
  /\ pc = "build"
  /\ IF cfg.input_paths = 0
     THEN /\ pc' = "failed"
          /\ error' = Failure("ValueError", "glob", NoPath, <<0, 0>>, "")
          /\ UNCHANGED <<pending_lines, pending_tars>>
     ELSE IF /\ JoinNeeded(cfg)
             /\ cfg.output_image_shape.given
             /\ ResizeImage_init(cfg.output_image_shape.dims) # "ok"
     THEN /\ pc' = "failed"
          /\ error' = Failure(ResizeImage_init(cfg.output_image_shape.dims),
                              "construct", NoPath, <<0, 0>>, "")
          /\ UNCHANGED <<pending_lines, pending_tars>>
     ELSE /\ pc' = "running"
          /\ error' = error
          /\ pending_lines' = csv_lines
          /\ pending_tars' = IF JoinNeeded(cfg) THEN tar_entries ELSE {}
  /\ UNCHANGED <<via, cfg, csv_lines, tar_entries, rows, rows_bq, jpgs,
                 jpgs_out, partitions, todo, bq_sink, jpg_sink, tf_sink,
                 fn_in, fn_out>>

\* ReadFromText | Map(parse_csv_row) on one label line
ParseRow(line) ==
  /\ pc = "running"
  /\ line \in pending_lines
  /\ pending_lines' = pending_lines \ {line}
  /\ LET r == parse_csv_row(line)
     IN IF r.type # "ok"
        THEN /\ pc' = "failed"
             /\ error' = Failure(r.type, "parse_csv_row", NoPath, <<0, 0>>,
                                 r.arg)
             /\ UNCHANGED <<rows, rows_bq>>
        ELSE LET el == [ids |-> r.ids, labels |-> r.labels,
                        n |-> NextRank(rows, r.ids)]
             IN /\ rows' = rows \cup {el}
                /\ rows_bq' = IF cfg.output_bq_table
                              THEN rows_bq \cup {el} ELSE rows_bq
                /\ UNCHANGED <<pc, error>>
  /\ UNCHANGED <<via, cfg, csv_lines, tar_entries, pending_tars, jpgs,
                 jpgs_out, partitions, todo, bq_sink, jpg_sink, tf_sink,
                 fn_in, fn_out>>

\* Map(to_bigquery_json) | WriteToBigQuery on one element of rows
ToBigQuery(el) ==
  /\ pc \in {"running", "joined"}
  /\ el \in rows_bq
  /\ rows_bq' = rows_bq \ {el}
  /\ bq_sink' = bq_sink \cup {[n |-> el.n, row |-> to_bigquery_json(el)]}
  /\ UNCHANGED <<via, cfg, csv_lines, tar_entries, pc, error, pending_lines,
                 pending_tars, rows, jpgs, jpgs_out, partitions, todo,
                 jpg_sink, tf_sink, fn_in, fn_out>>

\* Create(input_paths) | ParDo(ReadTarFile) | ParDo(ResizeImage) on one entry
ReadTar(entry) ==
  /\ pc = "running"
  /\ entry \in pending_tars
  /\ pending_tars' = pending_tars \ {entry}
  /\ LET r == ReadTarFile(entry, cfg)
     IN IF r.type # "ok"
        THEN /\ pc' = "failed"
             /\ error' = Failure(r.type, "ReadTarFile", entry.path, <<0, 0>>,
                                 "")
             /\ UNCHANGED <<jpgs, jpgs_out>>
        ELSE LET el == [ids |-> r.ids, jpg_bytes |-> r.jpg_bytes,
                        n |-> NextRank(jpgs, r.ids)]
             IN /\ jpgs' = jpgs \cup {el}
                /\ jpgs_out' = IF cfg.output_jpg_dir
                               THEN jpgs_out \cup {el} ELSE jpgs_out
                /\ UNCHANGED <<pc, error>>
  /\ UNCHANGED <<via, cfg, csv_lines, tar_entries, pending_lines, rows,
                 rows_bq, partitions, todo, bq_sink, jpg_sink, tf_sink,
                 fn_in, fn_out>>

\* Map(write_jpg, output_jpg_dir) on one element of jpgs
WriteJpg(el) ==
  /\ pc \in {"running", "joined"}
  /\ el \in jpgs_out
  /\ jpgs_out' = jpgs_out \ {el}
  /\ jpg_sink' = jpg_sink \cup {[n |-> el.n, file |-> write_jpg(el)]}
  /\ UNCHANGED <<via, cfg, csv_lines, tar_entries, pc, error, pending_lines,
                 pending_tars, rows, rows_bq, jpgs, partitions, todo,
                 bq_sink, tf_sink, fn_in, fn_out>>

\* CoGroupByKey | Partition: fires once both inputs are exhausted
Join ==
  /\ pc = "running"
  /\ JoinNeeded(cfg)
  /\ pending_lines = {} /\ pending_tars = {}
  /\ pc' = "joined"
  /\ partitions' = Partition(CoGroupByKey(jpgs, rows))
  /\ todo' = TargetsToBuild(cfg, partitions')
  /\ UNCHANGED <<via, cfg, csv_lines, tar_entries, error, pending_lines,
                 pending_tars, rows, rows_bq, jpgs, jpgs_out, bq_sink,
                 jpg_sink, tf_sink, fn_in, fn_out>>

\* Map(to_tf_example) | WriteToTFRecord on one group of a target partition
ToTfExample(name, g) ==
  /\ pc = "joined"
  /\ g \in todo[name]
  /\ todo' = [todo EXCEPT ![name] = @ \ {g}]
  /\ LET r == to_tf_example(g)
     IN IF r.type # "ok"
        THEN /\ pc' = "failed"
             /\ error' = Failure(r.type, "to_tf_example", r.path, r.counts,
                                 "")
             /\ UNCHANGED tf_sink
        ELSE /\ tf_sink' = [tf_sink EXCEPT ![name] = @ \cup {r}]
             /\ UNCHANGED <<pc, error>>
  /\ UNCHANGED <<via, cfg, csv_lines, tar_entries, pending_lines,
                 pending_tars, rows, rows_bq, jpgs, jpgs_out, partitions,
                 bq_sink, jpg_sink, fn_in, fn_out>>

\* the with-block ends once every transform has consumed its input
Finish ==
  /\ \/ pc = "joined"
     \/ pc = "running" /\ ~JoinNeeded(cfg)
  /\ pending_lines = {} /\ pending_tars = {}
  /\ rows_bq = {} /\ jpgs_out = {}
  /\ \A name \in DOMAIN todo : todo[name] = {}
  /\ pc' = "done"
  /\ UNCHANGED <<via, cfg, csv_lines, tar_entries, error, pending_lines,
                 pending_tars, rows, rows_bq, jpgs, jpgs_out, partitions,
                 todo, bq_sink, jpg_sink, tf_sink, fn_in, fn_out>>

-----------------------------------------------------------------------------
(* The pure functions on their own *)

NotRun == [type |-> "notrun"]

NoElement == [ids |-> NoIds, join |-> [jpgs |-> <<>>, rows |-> <<>>]]

ApplyConvert ==
  /\ pc = "fn" /\ fn_in.op = "convert"
  /\ fn_out' = convert(fn_in.row[1])
  /\ pc' = "fn_done"
  /\ UNCHANGED <<via, cfg, csv_lines, tar_entries, error, pending_lines,
                 pending_tars, rows, rows_bq, jpgs, jpgs_out, partitions,
                 todo, bq_sink, jpg_sink, tf_sink, fn_in>>

ApplyParseCsvRow ==
  /\ pc = "fn" /\ fn_in.op = "parse_csv_row"
  /\ fn_out' = parse_csv_row(fn_in.row)
  /\ pc' = "fn_done"
  /\ UNCHANGED <<via, cfg, csv_lines, tar_entries, error, pending_lines,
                 pending_tars, rows, rows_bq, jpgs, jpgs_out, partitions,
                 todo, bq_sink, jpg_sink, tf_sink, fn_in>>

ApplyToTfExample ==
  /\ pc = "fn" /\ fn_in.op = "to_tf_example"
  /\ fn_out' = to_tf_example(fn_in.element)
  /\ pc' = "fn_done"
  /\ UNCHANGED <<via, cfg, csv_lines, tar_entries, error, pending_lines,
                 pending_tars, rows, rows_bq, jpgs, jpgs_out, partitions,
                 todo, bq_sink, jpg_sink, tf_sink, fn_in>>

-----------------------------------------------------------------------------
(* Inputs *)

\* the subsets of U with at most k elements
RECURSIVE UpTo(_, _)
UpTo(U, k) ==
  IF k = 0 THEN {{}}
  ELSE LET P == UpTo(U, k - 1) IN P \cup {s \cup {a} : s \in P, a \in U}

\* the sequences over U with at most k elements
RECURSIVE SeqUpTo(_, _)
SeqUpTo(U, k) ==
  IF k = 0 THEN {<<>>}
  ELSE LET P == SeqUpTo(U, k - 1) IN P \cup {Append(s, a) : s \in P, a \in U}

Rep(n, s) == [i \in 1..n |-> s]

MkPath(split, patient, view) ==
  [split |-> split, patient |-> patient, study |-> 10, image |-> 1,
   view |-> view]

NumLabels == Len(LABEL_NAMES)

\* the label columns of the example line: '', 1.0, -1.0, 0.0, then blanks
ExampleFields == <<"", "1.0", "-1.0", "0.0">> \o Rep(NumLabels - 4, "")

Frontal == MkPath("train", 1, "frontal")
Lateral == MkPath("train", 1, "lateral")
Other == MkPath("train", 1, "other")

Line(path, fields) == <<path, path.view>> \o fields

\* the label lines a run draws from: one well-formed line per view, and for
\* the frontal key a second well-formed line, a line one column short and a
\* line with an unknown code
LineUniverse ==
  {Line(Frontal, ExampleFields), Line(Lateral, ExampleFields),
   Line(Other, ExampleFields), Line(Frontal, Rep(NumLabels, "1.0")),
   Line(Frontal, Rep(NumLabels - 1, "0.0")),
   Line(Frontal, Rep(NumLabels, "2.0"))}

\* the archive entries a run draws from: one per view, two for the frontal key
TarUniverse ==
  {[path |-> Frontal, data |-> "B1"], [path |-> Frontal, data |-> "B2"],
   [path |-> Lateral, data |-> "B1"], [path |-> Other, data |-> "B1"]}

\* the archives of the configuration runs: the example entry, alone or with
\* an entry whose view text is no member of the enumeration
ConfigTars ==
  {{[path |-> Frontal, data |-> "B1"]},
   {[path |-> Frontal, data |-> "B1"],
    [path |-> MkPath("train", 1, "oblique"), data |-> "B1"]}}

Sinks ==
  [output_jpg_dir : BOOLEAN, output_bq_table : BOOLEAN,
   output_tfrecord_dir : BOOLEAN]

NoShapeArg == [given |-> FALSE, dims |-> <<>>]

Config(paths, sinks, shape) ==
  [input_paths |-> paths, output_jpg_dir |-> sinks.output_jpg_dir,
   output_bq_table |-> sinks.output_bq_table,
   output_tfrecord_dir |-> sinks.output_tfrecord_dir,
   output_image_shape |-> shape]

InitRun ==
  /\ error = NoError
  /\ pending_lines = {} /\ pending_tars = {}
  /\ rows = {} /\ rows_bq = {} /\ jpgs = {} /\ jpgs_out = {}
  /\ partitions = EmptyParts /\ todo = EmptyTodo
  /\ bq_sink = {} /\ jpg_sink = {} /\ tf_sink = EmptyShards

NoFn == [op |-> "none", row |-> <<>>, element |-> NoElement]

\* a run over any input, every combination of sinks, no resize
InitData ==
  /\ via = "direct" /\ pc = "build"
  /\ \E s \in Sinks : cfg = Config(1, s, NoShapeArg)
  /\ csv_lines \in UpTo(LineUniverse, MaxCsvLines)
  /\ tar_entries \in UpTo(TarUniverse, MaxTarEntries)
  /\ fn_in = NoFn /\ fn_out = NotRun
  /\ InitRun

\* the shapes a caller can pass; argparse's nargs='+' never yields ()
ShapeArgs(v) ==
  {NoShapeArg} \cup
  {[given |-> TRUE, dims |-> Rep(n, 8)] :
     n \in (IF v = "main" THEN 1..4 ELSE 0..4)}

\* a run over the example label line, every configuration
InitConfig ==
  /\ via \in {"main", "direct"}
  /\ pc = IF via = "main" THEN "start" ELSE "build"
  /\ \E n \in {0, 1}, s \in Sinks, sh \in ShapeArgs(via) :
       /\ cfg = Config(n, s, sh)
       /\ IF n = 0 THEN tar_entries = {} ELSE tar_entries \in ConfigTars
  /\ csv_lines = {Line(Frontal, ExampleFields)}
  /\ fn_in = NoFn /\ fn_out = NotRun
  /\ InitRun

Init == InitData \/ InitConfig

Next ==
  \/ Main
  \/ BuildPipeline
  \/ \E line \in pending_lines : ParseRow(line)
  \/ \E el \in rows_bq : ToBigQuery(el)
  \/ \E entry \in pending_tars : ReadTar(entry)
  \/ \E el \in jpgs_out : WriteJpg(el)
  \/ Join
  \/ \E name \in DOMAIN TargetIndex : \E g \in todo[name] : ToTfExample(name, g)
  \/ Finish

\* the pipeline: every configuration, every input, every interleaving
Spec == Init /\ [][Next]_vars

\* the raw strings handed to convert
RawStrings ==
  {"", "1.0", "-1.0", "0.0", "1", "0", "-1", "1.00", "0.00", " ", "nan",
   "2.0", "positive"}

\* the raw strings the label columns of a row are drawn from
FieldStrings == {"", "1.0", "-1.0", "0.0", "1", "nan"}

\* the rows handed to parse_csv_row: the empty line, rows of a well-formed
\* and of a malformed path with up to MaxFields label columns, a row without
\* a view column, and full-width rows
ParseRows ==
  {<<>>, <<Frontal>>}
    \cup {Line(p, f) : p \in {Frontal, MkPath("train", 1, "oblique")},
                       f \in SeqUpTo(FieldStrings, MaxFields)}
    \cup LineUniverse
    \cup {Line(Frontal, Rep(NumLabels + 1, "-1.0"))}

LabelsOf(fields) == [i \in 1..Len(fields) |-> convert(fields[i]).code]

\* the image buffers and label vectors of the groups handed to to_tf_example
GroupJpgs ==
  {[data |-> "B1", shape |-> 0], [data |-> "B2", shape |-> 0],
   [data |-> "", shape |-> 0]}

GroupRows ==
  {LabelsOf(ExampleFields), LabelsOf(Rep(NumLabels, "1.0")),
   LabelsOf(Rep(NumLabels - 1, "0.0"))}

\* CoGroupByKey yields a group only for a key that occurs on some side
Elements ==
  {[ids |-> path_to_ids(p).ids, join |-> [jpgs |-> js, rows |-> rs]] :
     p \in {Frontal, Other},
     js \in SeqUpTo(GroupJpgs, MaxGroupSide),
     rs \in SeqUpTo(GroupRows, MaxGroupSide)}
   \ {[ids |-> path_to_ids(p).ids, join |-> [jpgs |-> <<>>, rows |-> <<>>]] :
        p \in {Frontal, Other}}

InitFn ==
  /\ via = "direct" /\ pc = "fn"
  /\ cfg = Config(1, [output_jpg_dir |-> FALSE, output_bq_table |-> FALSE,
                      output_tfrecord_dir |-> FALSE], NoShapeArg)
  /\ csv_lines = {} /\ tar_entries = {}
  /\ InitRun
  /\ fn_out = NotRun
  /\ \/ \E s \in RawStrings :
          fn_in = [op |-> "convert", row |-> <<s>>, element |-> NoElement]
     \/ \E r \in ParseRows :
          fn_in = [op |-> "parse_csv_row", row |-> r, element |-> NoElement]
     \/ \E e \in Elements :
          fn_in = [op |-> "to_tf_example", row |-> <<>>, element |-> e]

NextFn == ApplyConvert \/ ApplyParseCsvRow \/ ApplyToTfExample

\* convert, parse_csv_row and to_tf_example applied to every input
SpecFn == InitFn /\ [][NextFn]_vars

-----------------------------------------------------------------------------
(* Properties *)

OneToOne(g) == Len(g.join.jpgs) = 1 /\ Len(g.join.rows) = 1

\* the groups 'Partition on view' has emitted
Groups == UNION {partitions[i] : i \in DOMAIN partitions}

\* the groups of the partitions that feed a shard set
TargetGroups == UNION {partitions[TargetIndex[n]] : n \in DOMAIN TargetIndex}

\* the join has been performed in this run
HasJoined ==
  \/ pc = "joined"
  \/ pc = "done" /\ JoinNeeded(cfg)
  \/ pc = "failed" /\ error.stage = "to_tf_example"

\* the run ended on the cardinality error of to_tf_example
JoinFailure ==
  pc = "failed" /\ error.stage = "to_tf_example" /\ error.type = "ValueError"

\* the keys of the records read so far
GroupedKeys == KeysOf(jpgs) \cup KeysOf(rows)

WellFormed(g) ==
  /\ OneToOne(g)
  /\ g.join.jpgs[1].data # ""
  /\ Len(g.join.rows[1]) = NumLabels

\* C1: to_tf_example raises its cardinality error exactly when the group does
\* not hold one Image Record and one Label Record; the error carries the
\* key's path and the counts in the order (images, labels); a (1,1) group is
\* built from exactly its one image and its one label vector, and a built
\* record only ever comes from a (1,1) group.
C1_CardinalityCheck ==
  (pc = "fn_done" /\ fn_in.op = "to_tf_example") =>
    LET e == fn_in.element
        ni == Len(e.join.jpgs)
        nl == Len(e.join.rows)
    IN /\ (fn_out.type = "ValueError") <=> ~(ni = 1 /\ nl = 1)
       /\ fn_out.type = "ValueError" =>
            /\ fn_out.counts = <<ni, nl>>
            /\ fn_out.path = ids_to_path(e.ids)
       /\ fn_out.type = "ok" => ni = 1 /\ nl = 1
       /\ (ni = 1 /\ nl = 1) =>
            /\ fn_out.jpg_bytes = e.join.jpgs[1]
            /\ fn_out.labels = e.join.rows[1]
            /\ fn_out.ids = e.ids
       /\ WellFormed(e) => fn_out.type = "ok"

\* a group of two images and one label vector was rejected with counts (2,1)
C1_Witness ==
  /\ pc = "fn_done" /\ fn_in.op = "to_tf_example"
  /\ Len(fn_in.element.join.jpgs) = 2 /\ Len(fn_in.element.join.rows) = 1
  /\ fn_out.type = "ValueError" /\ fn_out.counts = <<2, 1>>

\* C2 as stated: no run that performed the join completes while some grouped
\* key, of any view and under any choice of sinks, has counts other than (1,1).
C2_EveryKeyChecked ==
  (pc = "done" /\ JoinNeeded(cfg)) => \A g \in Groups : OneToOne(g)

\* C2 amended: with the shard sink enabled, no run completes while a grouped
\* key of a target view (frontal, lateral) has counts other than (1,1), and a
\* cardinality failure names a target-view group whose counts are not (1,1).
C2_TargetKeysChecked ==
  /\ (pc = "done" /\ cfg.output_tfrecord_dir) =>
       \A g \in TargetGroups : OneToOne(g)
  /\ JoinFailure =>
       /\ cfg.output_tfrecord_dir
       /\ \E g \in TargetGroups :
            /\ ~OneToOne(g)
            /\ error.path = ids_to_path(g.ids)

\* a run with the shard sink enabled ended on a key with two images, one label
C2_Witness ==
  /\ JoinFailure
  /\ error.counts = <<2, 1>>
  /\ cfg.output_tfrecord_dir

\* the examples written to the shard sets, and their keys
Written == UNION {tf_sink[n] : n \in DOMAIN tf_sink}

\* C3 as stated: when the run ends on a cardinality failure, every other
\* (1,1) key of a target partition has its training record in its shard set
\* and the pre-join sinks hold the output of every record.
C3_FailureConfined ==
  JoinFailure =>
    /\ \A n \in DOMAIN TargetIndex :
         \A g \in partitions[TargetIndex[n]] :
           WellFormed(g) => \E x \in tf_sink[n] : x.ids = g.ids
    /\ cfg.output_bq_table => Cardinality(bq_sink) = Cardinality(rows)
    /\ cfg.output_jpg_dir => Cardinality(jpg_sink) = Cardinality(jpgs)

\* C3 amended: a cardinality failure is raised for, and names, only a key
\* whose counts are not (1,1), with the counts in the order (images, labels);
\* no training record is written for that key, and every record written is
\* that of a (1,1) key; but the failure ends the run, so the other keys and
\* the pre-join branches keep only what they produced before it.
C3_FailureNamesItsKey ==
  JoinFailure =>
    /\ \E g \in TargetGroups :
         /\ ~OneToOne(g)
         /\ error.path = ids_to_path(g.ids)
         /\ error.counts = <<Len(g.join.jpgs), Len(g.join.rows)>>
         /\ \A x \in Written : x.ids # g.ids
    /\ \A x \in Written : \E g \in TargetGroups : g.ids = x.ids /\ OneToOne(g)
    /\ \A b \in bq_sink : \E el \in rows : el.ids = b.row.ids /\ el.n = b.n
    /\ \A j \in jpg_sink :
         \E el \in jpgs : ids_to_path(el.ids) = j.file.path /\ el.n = j.n

\* an image without a label failed the run with counts (1,0) while another
\* key had joined one to one
C3_Witness ==
  /\ JoinFailure
  /\ error.counts = <<1, 0>>
  /\ \E g \in TargetGroups : WellFormed(g)

\* C4 as stated: the partitions hold exactly the successfully joined keys, so
\* no group with counts other than (1,1) is in any partition.
C4_PartitionAfterJoin ==
  HasJoined => \A g \in Groups : OneToOne(g)

\* C4 amended: partitioning precedes the cardinality check. There are as many
\* partitions as views; every grouped key, whatever its counts, has exactly
\* one group, in exactly one partition, the one whose index is the
\* enumeration value of the key's view; the union of the partitions' keys is
\* the set of grouped keys.
C4_PartitionTotalDisjoint ==
  HasJoined =>
    /\ DOMAIN partitions = 0..(Cardinality(DOMAIN VIEW_VALUES) - 1)
    /\ {g.ids : g \in Groups} = GroupedKeys
    /\ \A k \in GroupedKeys :
         /\ Cardinality({i \in DOMAIN partitions :
                           \E g \in partitions[i] : g.ids = k}) = 1
         /\ Cardinality({g \in Groups : g.ids = k}) = 1
         /\ \E g \in partitions[k.view] : g.ids = k

\* groups of two different views were partitioned, one of them not (1,1)
C4_Witness ==
  /\ HasJoined
  /\ \E g, h \in Groups : g.ids.view # h.ids.view /\ ~OneToOne(g)

\* the view a shard set is named for
ViewOf(n) == VIEW_VALUES[n]

\* C5: a shard set only ever holds records of (1,1) keys of the view it is
\* named for, and only when the shard sink is enabled; no key of view other
\* yields a training record. When a run with the shard sink enabled
\* completes, each shard set holds a record for exactly the (1,1) keys of its
\* view, and the Label Records and Image Records of view other are in the
\* tabular and blob sinks when these are enabled.
C5_ShardsPerTargetPartition ==
  /\ \A n \in DOMAIN tf_sink : \A x \in tf_sink[n] :
       /\ cfg.output_tfrecord_dir
       /\ x.ids.view = ViewOf(n)
       /\ x.ids.view # VIEW_VALUES["other"]
       /\ Cardinality({j \in jpgs : j.ids = x.ids}) = 1
       /\ Cardinality({r \in rows : r.ids = x.ids}) = 1
  /\ (pc = "done" /\ cfg.output_tfrecord_dir) =>
       \A n \in DOMAIN tf_sink :
         {x.ids : x \in tf_sink[n]} =
           {k \in GroupedKeys :
              /\ k.view = ViewOf(n)
              /\ Cardinality({j \in jpgs : j.ids = k}) = 1
              /\ Cardinality({r \in rows : r.ids = k}) = 1}
  /\ (pc = "done" /\ cfg.output_bq_table) =>
       \A r \in rows :
         r.ids.view = VIEW_VALUES["other"] =>
           \E b \in bq_sink : b.row.ids = r.ids /\ b.n = r.n
  /\ (pc = "done" /\ cfg.output_jpg_dir) =>
       \A el \in jpgs :
         el.ids.view = VIEW_VALUES["other"] =>
           \E j \in jpg_sink : /\ j.file.path = ids_to_path(el.ids)
                               /\ j.file.bytes = el.jpg_bytes

\* a run with all three sinks completed with a (1,1) key of view other and a
\* (1,1) key of a target view
C5_Witness ==
  /\ pc = "done"
  /\ cfg.output_tfrecord_dir /\ cfg.output_bq_table /\ cfg.output_jpg_dir
  /\ \E g \in partitions[VIEW_VALUES["other"]] : OneToOne(g)
  /\ Written # {}

\* the label columns a row carries for the label vector v
RowLabels(v) ==
  [c \in {LABEL_NAMES[i] : i \in 1..Min(Len(v), Len(LABEL_NAMES))} |->
     v[CHOOSE i \in 1..Len(LABEL_NAMES) : LABEL_NAMES[i] = c]]

\* the shape the blob sink's bytes have under the configuration
SinkShape ==
  IF cfg.output_image_shape.given THEN Len(cfg.output_image_shape.dims) ELSE 0

InputImages(k) == {e \in tar_entries : path_to_ids(e.path).ids = k}
InputLabels(k) == {l \in csv_lines : parse_csv_row(l).ids = k}

\* C7: whatever the order in which the records arrived, the group of each key
\* has the counts of that key in the input, lies in the partition of the
\* key's view, fails the cardinality check exactly when the input counts are
\* not (1,1), and for a (1,1) key pairs the key's one image with its one
\* label vector.
C7_JoinOrderIndependent ==
  HasJoined =>
    \A g \in Groups :
      /\ Len(g.join.jpgs) = Cardinality(InputImages(g.ids))
      /\ Len(g.join.rows) = Cardinality(InputLabels(g.ids))
      /\ g \in partitions[g.ids.view]
      /\ (to_tf_example(g).type = "ValueError") <=>
           ~(/\ Cardinality(InputImages(g.ids)) = 1
             /\ Cardinality(InputLabels(g.ids)) = 1)
      /\ OneToOne(g) =>
           /\ \E e \in InputImages(g.ids) : e.data = g.join.jpgs[1].data
           /\ \E l \in InputLabels(g.ids) :
                parse_csv_row(l).labels = g.join.rows[1]

\* two images of one key arrived, the second entry of the archive first, and
\* were grouped
C7_Witness ==
  /\ HasJoined
  /\ \E a, b \in jpgs : /\ a.ids = b.ids
                        /\ a.n = 1 /\ a.jpg_bytes.data = "B2"
                        /\ b.n = 2 /\ b.jpg_bytes.data = "B1"
  /\ rows # {}

\* C8: convert accepts exactly '', '1.0', '-1.0' and '0.0', as not_mentioned,
\* positive, uncertain and negative; for any other string it raises an error
\* that names the string; parse_csv_row fails whenever some label column is
\* none of the four strings, and otherwise yields the columns' codes in order.
C8_ConvertTotality ==
  /\ (pc = "fn_done" /\ fn_in.op = "convert") =>
       LET x == fn_in.row[1]
       IN /\ x = "" => fn_out.type = "ok"
                       /\ fn_out.code = LABEL_VALUES["not_mentioned"]
          /\ x = "1.0" => fn_out.type = "ok"
                          /\ fn_out.code = LABEL_VALUES["positive"]
          /\ x = "-1.0" => fn_out.type = "ok"
                           /\ fn_out.code = LABEL_VALUES["uncertain"]
          /\ x = "0.0" => fn_out.type = "ok"
                          /\ fn_out.code = LABEL_VALUES["negative"]
          /\ x \notin {"", "1.0", "-1.0", "0.0"} =>
               fn_out.type = "ValueError" /\ fn_out.arg = x
  /\ (pc = "fn_done" /\ fn_in.op = "parse_csv_row") =>
       LET r == fn_in.row
       IN /\ (\E i \in 3..Len(r) : r[i] \notin {"", "1.0", "-1.0", "0.0"})
               => fn_out.type # "ok"
          /\ fn_out.type = "ok" =>
               /\ Len(fn_out.labels) = Len(r) - 2 \/ Len(r) = 1
               /\ \A i \in 1..Len(fn_out.labels) :
                    fn_out.labels[i] =
                      CASE r[i + 2] = "" -> LABEL_VALUES["not_mentioned"]
                        [] r[i + 2] = "1.0" -> LABEL_VALUES["positive"]
                        [] r[i + 2] = "-1.0" -> LABEL_VALUES["uncertain"]
                        [] r[i + 2] = "0.0" -> LABEL_VALUES["negative"]

\* a row of a well-formed path with an unknown code in a label column was
\* rejected with an error naming that code
C8_Witness ==
  /\ pc = "fn_done" /\ fn_in.op = "parse_csv_row"
  /\ Len(fn_in.row) = 4
  /\ fn_in.row[3] = "1.0" /\ fn_in.row[4] = "nan"
  /\ fn_out.type = "ValueError" /\ fn_out.arg = "nan"

\* nothing of the input has been processed and no sink has been written
NothingProcessed ==
  /\ pc \in {"start", "build", "exit", "failed"}
  /\ pending_lines = {} /\ pending_tars = {}
  /\ rows = {} /\ jpgs = {}
  /\ bq_sink = {} /\ jpg_sink = {} /\ Written = {}

BadArity ==
  /\ cfg.output_image_shape.given
  /\ Len(cfg.output_image_shape.dims) \notin {2, 3}

\* C9 as stated: with no matching archive, or with a shape whose arity is
\* neither 2 nor 3, no label line is ever parsed, no archive read, no sink
\* written and the run never completes, however the pipeline is reached.
C9_ConfigErrorsFirst ==
  (cfg.input_paths = 0 \/ BadArity) =>
    /\ rows = {} /\ jpgs = {}
    /\ bq_sink = {} /\ jpg_sink = {} /\ Written = {}
    /\ pc # "done"

\* C9 amended: with no matching archive (through main or called directly), or
\* through main with a shape whose arity is neither 2 nor 3, nothing is ever
\* processed: the run ends in main's usage error or in the ValueError of the
\* glob check. build_and_run_pipeline itself does not check the arity.
C9_ConfigErrorsFirstViaMain ==
  (cfg.input_paths = 0 \/ (via = "main" /\ BadArity)) =>
    /\ NothingProcessed
    /\ pc = "failed" => error.stage = "glob"
    /\ pc = "exit" => BadArity

\* main refused a shape of one integer while a sink was enabled
C9_Witness ==
  /\ pc = "exit"
  /\ Len(cfg.output_image_shape.dims) = 1
  /\ cfg.input_paths = 1
  /\ cfg.output_bq_table

\* C10: every row in the tabular sink has a field for each of the 14
\* categories and was made from a label vector of exactly that length (none
\* missing, none cut off), and every training record has a label vector of
\* that length.
C10_LabelVectorLength ==
  /\ \A b \in bq_sink :
       /\ DOMAIN b.row.labels = {LABEL_NAMES[i] : i \in 1..Len(LABEL_NAMES)}
       /\ \A el \in rows :
            (el.ids = b.row.ids /\ el.n = b.n) =>
              Len(el.labels) = Len(LABEL_NAMES)
  /\ \A x \in Written : Len(x.labels) = Len(LABEL_NAMES)

====
